---- MODULE Spec2Model ----
(***************************************************************************)
(* Model of wikidata_integration.py: the typed-value interpreter           *)
(* (map_value), the per-property claim reduction and entity projection of  *)
(* process_chunk, and the batching stream loop of main.                    *)
(*                                                                         *)
(* Python str values are sequences of code points (so that sorted() and    *)
(* the date regular expression can be computed, not assumed).  Every       *)
(* Python value that can reach a rank bucket is a record                   *)
(*   [kind, s, n, lat, lng, globe, altitude]                               *)
(* with kind "none" (None), "str", "float" or "dict".  Optional members    *)
(* are sequences of length 0 (missing / None) or 1.                        *)
(***************************************************************************)
EXTENDS Integers, Sequences, FiniteSets, TLC

VARIABLES
    pc,           \* position of the run
    stream,       \* the lines of the dump file, in file order
    chunk_size,   \* main: chunk_size (1000 in the source, 1..MaxChunkSize here)
    line_number,  \* main: number of lines taken from the reader so far
    chunk,        \* main: chunk, the entries buffered for the next batch,
                  \* each with the number of the line it came from
    todo,         \* process_chunk: the entries of the batch not yet visited
    c,            \* process_chunk: c
    skip,         \* process_chunk: skip
    id_name_map,  \* main: id_name_map, the resolver
    table,        \* the rows inserted through cursor.execute, in order
    printed,      \* the (c, skip) pairs printed at the end of each batch
    cur,          \* line number of the entry visited last
    resolved,     \* identifiers whose lookup succeeded in the last visit
    claims,       \* claim reduction: the claims of one property
    reduced,      \* claim reduction: the value chosen for the property
    value,        \* typed-value interpretation: the raw datavalue
    mapped        \* typed-value interpretation: the result of map_value

vars == <<pc, stream, chunk_size, line_number, chunk, todo, c, skip,
          id_name_map, table, printed, cur, resolved,
          claims, reduced, value, mapped>>

streamVars == <<stream, chunk_size, line_number, chunk, todo, c, skip,
                table, printed, cur, resolved>>

-----------------------------------------------------------------------------
(* Bounds of the model.                                                    *)

MaxClaims == 3      \* longest claim list of one property
MaxLines == 3       \* longest dump file
MaxChunkSize == 2   \* largest chunk_size tried

-----------------------------------------------------------------------------
(* Python values.                                                          *)

None == [kind |-> "none", s |-> <<>>, n |-> 0,
         lat |-> <<>>, lng |-> <<>>, globe |-> <<>>, altitude |-> <<>>]

Str(s) == [None EXCEPT !.kind = "str", !.s = s]

Float(n) == [None EXCEPT !.kind = "float", !.n = n]

\* Python truthiness as used by `if data_value:`, `if prop_name:`,
\* `if wikipedia_id and title:`; a dict with keys lat and lng is non-empty.
Truthy(v) ==
    \/ v.kind = "str" /\ v.s # <<>>
    \/ v.kind = "float" /\ v.n # 0
    \/ v.kind = "dict"

\* dict.get(key, key): a key that is not bound is returned as it is
Get_or_key(m, key) == IF key \in DOMAIN m THEN Str(m[key]) ELSE Str(key)

\* dict.get(key): the value bound to key, or None.
Get(m, key) == IF key \in DOMAIN m THEN Str(m[key]) ELSE None

\* str < str: lexicographic on code points, a proper prefix is smaller.
RECURSIVE StrLess(_, _)
StrLess(a, b) ==
    IF b = <<>> THEN FALSE
    ELSE IF a = <<>> THEN TRUE
    ELSE IF Head(a) # Head(b) THEN Head(a) < Head(b)
    ELSE StrLess(Tail(a), Tail(b))

IsDigit(ch) == ch \in 48..57

\* int() of a run of decimal digits.
RECURSIVE DigitsToInt(_)
DigitsToInt(ds) ==
    IF ds = <<>> THEN 0
    ELSE 10 * DigitsToInt(SubSeq(ds, 1, Len(ds) - 1)) + (ds[Len(ds)] - 48)

\* the decimal digits of n >= 0
RECURSIVE IntToDigits(_)
IntToDigits(n) ==
    IF n < 10 THEN <<48 + n>>
    ELSE Append(IntToDigits(n \div 10), 48 + (n % 10))

\* '%0<width>d' % n for n >= 0
RECURSIVE ZeroPad(_, _)
ZeroPad(ds, width) ==
    IF Len(ds) >= width THEN ds ELSE ZeroPad(<<48>> \o ds, width)

Fmt(n, width) == ZeroPad(IntToDigits(n), width)


-----------------------------------------------------------------------------
(* Raw datavalues (mainsnak.datavalue).  present = FALSE is a missing or   *)
(* empty datavalue; text carries value (string), value['id'],              *)
(* value['time'], value['amount'], value['text'] or value['globe'].        *)
(* Payloads are well-formed for their type: the members map_value indexes  *)
(* exist, and an amount is an optionally signed run of decimal digits.     *)

NoDatavalue ==
    [present |-> FALSE, has_type |-> FALSE, has_value |-> FALSE,
     type |-> "", text |-> <<>>,
     latitude |-> <<>>, longitude |-> <<>>, altitude |-> <<>>]

Datavalue(type, text) ==
    [NoDatavalue EXCEPT !.present = TRUE, !.has_type = TRUE,
                        !.has_value = TRUE, !.type = type, !.text = text]

\* the longest run of decimal digits at the start of text
RECURSIVE DigitRun(_)
DigitRun(text) ==
    IF text # <<>> /\ IsDigit(Head(text))
    THEN <<Head(text)>> \o DigitRun(Tail(text))
    ELSE <<>>

\* (\d+) sep (\d+) sep ... (\d+) matched at the start of text: the groups,
\* or <<>> when there is no match.  A separator is never a digit, so the
\* greedy runs leave the regular expression no other way to match.
RECURSIVE MatchGroups(_, _)
MatchGroups(text, seps) ==
    LET run == DigitRun(text)
        rest == SubSeq(text, Len(run) + 1, Len(text))
    IN  IF run = <<>> THEN <<>>
        ELSE IF seps = <<>> THEN <<run>>
        ELSE IF rest = <<>> \/ Head(rest) # Head(seps) THEN <<>>
        ELSE LET more == MatchGroups(Tail(rest), Tail(seps))
             IN  IF more = <<>> THEN <<>> ELSE <<run>> \o more

\* DATE_PARSE_RE.match(text).groups(): re.match matches only at the very
\* start of text.  Separators are - - T : :
DATE_PARSE_RE(text) == MatchGroups(text, <<45, 45, 84, 58, 58>>)

\* the branch typ == 'time' of map_value
map_time(text) ==
    LET time_split == DATE_PARSE_RE(text)
    IN  IF time_split = <<>> THEN None
        ELSE LET year == DigitsToInt(time_split[1])
                 month == DigitsToInt(time_split[2])
                 day == DigitsToInt(time_split[3])
                 hour == DigitsToInt(time_split[4])
                 minute == DigitsToInt(time_split[5])
                 second == DigitsToInt(time_split[6])
                 day1 == IF day = 0 THEN 1 ELSE day
                 month1 == IF month = 0 THEN 1 ELSE month
             IN  Str(Fmt(year, 4) \o <<45>> \o Fmt(month1, 2) \o <<45>>
                     \o Fmt(day1, 2) \o <<84>> \o Fmt(hour, 2) \o <<58>>
                     \o Fmt(minute, 2) \o <<58>> \o Fmt(second, 2))

\* float(value['amount']) for an optionally signed run of digits
ParseAmount(text) ==
    IF text # <<>> /\ Head(text) = 45 THEN 0 - DigitsToInt(Tail(text))
    ELSE IF text # <<>> /\ Head(text) = 43 THEN DigitsToInt(Tail(text))
    ELSE DigitsToInt(text)

\* text.rsplit('/', 1)[-1]: what follows the last '/', or all of text
RECURSIVE AfterLastSlash(_)
AfterLastSlash(text) ==
    IF \E i \in 1..Len(text) : text[i] = 47
    THEN AfterLastSlash(Tail(text))
    ELSE text

\* an optional number is truthy when present and not zero
TruthyNum(x) == x # <<>> /\ x[1] # 0

\* the branch typ == 'globecoordinate' without the test
\* `globe in id_name_map` of line 61
map_globecoordinate_any_globe(v, names) ==
    IF TruthyNum(v.latitude) \/ TruthyNum(v.longitude)
    THEN LET globe == AfterLastSlash(v.text)
         IN  [None EXCEPT
                !.kind = "dict",
                !.lat = v.latitude,
                !.lng = v.longitude,
                !.globe = IF globe # <<81, 50>> THEN <<globe>> ELSE <<>>,
                !.altitude = IF TruthyNum(v.altitude) THEN v.altitude ELSE <<>>]
    ELSE None

\* the branch typ == 'globecoordinate' of map_value
map_globecoordinate(v, names) ==
    IF TruthyNum(v.latitude) \/ TruthyNum(v.longitude)
    THEN LET globe == AfterLastSlash(v.text)
         IN  [None EXCEPT
                !.kind = "dict",
                !.lat = v.latitude,
                !.lng = v.longitude,
                !.globe = IF globe # <<81, 50>> /\ globe \in DOMAIN names
                          THEN <<globe>> ELSE <<>>,
                !.altitude = IF TruthyNum(v.altitude) THEN v.altitude ELSE <<>>]
    ELSE None

map_value(v, names) ==
    IF ~v.present \/ ~v.has_type \/ ~v.has_value THEN None
    ELSE CASE v.type = "string" -> Str(v.text)
           [] v.type = "wikibase-entityid" -> Get(names, v.text)
           [] v.type = "time" -> map_time(v.text)
           [] v.type = "quantity" -> Float(ParseAmount(v.text))
           [] v.type = "monolingualtext" -> Str(v.text)
           [] v.type = "globecoordinate" -> map_globecoordinate(v, names)
           [] OTHER -> None

-----------------------------------------------------------------------------
(* Claim reduction: lines 93-112 of process_chunk.                         *)

Ranks == {"preferred", "normal", "deprecated"}

\* a claim: claim.get('mainsnak'), mainsnak.get('datavalue'), claim['rank']
Claim(rank, datavalue) ==
    [has_mainsnak |-> TRUE, datavalue |-> datavalue, rank |-> rank]

\* the part of a bucket that stays when a claim's value is appended
Kept(lst, datavalue) ==
    IF datavalue.type # "wikibase-entityid" THEN <<>> ELSE lst

\* the claim is an entity reference (line 100)
IsReference(claim) ==
    claim.has_mainsnak /\ claim.datavalue.type = "wikibase-entityid"

\* the loop body without the test `if data_value` of line 98
AddClaim_untested(buckets, claim, names) ==
    IF ~claim.has_mainsnak \/ claim.rank \notin DOMAIN buckets THEN buckets
    ELSE [buckets EXCEPT ![claim.rank] =
             Append(Kept(buckets[claim.rank], claim.datavalue),
                    map_value(claim.datavalue, names))]

\* the loop body clearing the bucket before the test `if data_value`
AddClaim_clear_first(buckets, claim, names) ==
    IF ~claim.has_mainsnak \/ claim.rank \notin DOMAIN buckets THEN buckets
    ELSE LET data_value == map_value(claim.datavalue, names)
             kept == Kept(buckets[claim.rank], claim.datavalue)
         IN  [buckets EXCEPT ![claim.rank] =
                 IF Truthy(data_value) THEN Append(kept, data_value)
                 ELSE kept]

\* one pass of the loop `for claim in claims` over the buckets
AddClaim(buckets, claim, names) ==
    IF ~claim.has_mainsnak THEN buckets
    ELSE LET data_value == map_value(claim.datavalue, names)
         IN  IF ~Truthy(data_value) \/ claim.rank \notin DOMAIN buckets
             THEN buckets
             ELSE [buckets EXCEPT ![claim.rank] =
                      Append(Kept(buckets[claim.rank], claim.datavalue),
                             data_value)]

\* ranks after the loop over the first k claims
RECURSIVE ranks(_, _, _)
ranks(cl, k, names) ==
    IF k = 0 THEN [r \in Ranks |-> <<>>]
    ELSE AddClaim(ranks(cl, k - 1, names), cl[k], names)

\* a < b as sorted() evaluates it
PyLess(a, b) ==
    IF a.kind = "str" THEN StrLess(a.s, b.s) ELSE a.n < b.n

\* sorted() raises TypeError when it compares two values that have no
\* order: values of different types, or two dicts
SortRaises(lst) ==
    \E i, j \in 1..Len(lst) :
        /\ i # j
        /\ \/ lst[i].kind # lst[j].kind
           \/ lst[i].kind = "dict"

\* x put into the sorted list lst, after the elements that are not greater
RECURSIVE Insert(_, _)
Insert(lst, x) ==
    IF lst = <<>> THEN <<x>>
    ELSE IF PyLess(x, lst[Len(lst)])
         THEN Append(Insert(SubSeq(lst, 1, Len(lst) - 1), x), lst[Len(lst)])
         ELSE Append(lst, x)

\* sorted() that leaves the list in claim order
sorted_unsorted(lst) == lst

RECURSIVE sorted(_)
sorted(lst) ==
    IF lst = <<>> THEN <<>>
    ELSE Insert(sorted(SubSeq(lst, 1, Len(lst) - 1)), lst[Len(lst)])

\* the outcome of lines 104-112 for one property
Absent == [tag |-> "absent", vals |-> <<>>]

Scalar(v) == [tag |-> "scalar", vals |-> <<v>>]

List(lst) == [tag |-> "list", vals |-> lst]

TypeError == [tag |-> "TypeError", vals |-> <<>>]

\* the loop `for r in 'preferred', 'normal', 'deprecated'`
Priority == <<"preferred", "normal", "deprecated">>

choose_value(buckets) ==
    IF \A i \in 1..Len(Priority) : buckets[Priority[i]] = <<>> THEN Absent
    ELSE LET first == CHOOSE i \in 1..Len(Priority) :
                          /\ buckets[Priority[i]] # <<>>
                          /\ \A j \in 1..(i - 1) : buckets[Priority[j]] = <<>>
             val == buckets[Priority[first]]
         IN  IF Len(val) = 1 THEN Scalar(val[1])
             ELSE IF SortRaises(val) THEN TypeError
             ELSE List(sorted(val))

\* the value of one property: buckets filled from its claims, one chosen
property_value(cl, names) == choose_value(ranks(cl, Len(cl), names))

-----------------------------------------------------------------------------
(* Strings used as inputs.  Keys of the resolver are display titles        *)
(* (sitelinks.enwiki.title); its values are English labels.                *)

Q1 == <<81, 49>>        \* "Q1"

Q3 == <<81, 51>>        \* "Q3"

Q4 == <<81, 52>>        \* "Q4"

LabelA == <<97>>        \* "a"

LabelB == <<98>>        \* "b"

LabelAB == <<97, 98>>   \* "ab"

EmptyMap == [k \in {} |-> <<>>]

\* resolvers a run can have built: every label is a non-empty string,
\* because line 84 registers a title only when it is truthy
Resolvers ==
    { EmptyMap,
      (Q1 :> LabelB),
      (Q1 :> LabelB) @@ (Q3 :> LabelA) @@ (Q4 :> LabelAB),
      (Q1 :> LabelA) @@ (Q3 :> LabelB) @@ (Q4 :> LabelA) }

-----------------------------------------------------------------------------
(* Specification SpecReduce: the claims of one property are reduced        *)
(* against a resolver built earlier in the run.                            *)

ReduceDatavalues ==
    { Datavalue("wikibase-entityid", id) : id \in {Q1, Q3, Q4} }
    \cup { Datavalue("string", <<109>>),        \* "m"
           Datavalue("string", <<>>),           \* ""
           Datavalue("quantity", <<43, 48>>),   \* "+0"
           Datavalue("quantity", <<43, 55>>) }  \* "+7"

ReduceClaims == { Claim(r, dv) : r \in Ranks, dv \in ReduceDatavalues }

ClaimLists == UNION { [1..k -> ReduceClaims] : k \in 0..MaxClaims }

StreamIdle ==
    /\ stream = <<>> /\ chunk_size = 1 /\ line_number = 0
    /\ chunk = <<>> /\ todo = <<>> /\ c = 0 /\ skip = 0
    /\ table = <<>> /\ printed = <<>>
    /\ cur = 0 /\ resolved = {}

InitReduce ==
    /\ pc = "reduce"
    /\ claims \in ClaimLists
    /\ id_name_map \in Resolvers
    /\ reduced = Absent
    /\ value = NoDatavalue /\ mapped = None
    /\ StreamIdle

ReduceProperty ==
    /\ pc = "reduce"
    /\ reduced' = property_value(claims, id_name_map)
    /\ pc' = "reduced"
    /\ UNCHANGED <<claims, id_name_map, value, mapped>>
    /\ UNCHANGED streamVars

NextReduce == ReduceProperty

SpecReduce == InitReduce /\ [][NextReduce]_vars

-----------------------------------------------------------------------------
(* Specification SpecSkip: the reduction of SpecReduce over claim lists    *)
(* in which claims that map_value cannot interpret stand between claims    *)
(* it can.                                                                 *)

\* datavalues for which map_value returns None whatever the resolver
\* holds, or (the reference to Q4) when the resolver has no such key
AbsentDatavalues ==
    { NoDatavalue,                                        \* no datavalue
      [Datavalue("", <<109>>) EXCEPT !.has_type = FALSE], \* no 'type'
      [Datavalue("string", <<>>) EXCEPT !.has_value = FALSE], \* no 'value'
      Datavalue("unknown", <<109>>),                      \* unknown type
      Datavalue("wikibase-entityid", Q4),                 \* not registered
      Datavalue("time", <<49, 57, 57, 57>>) }             \* "1999"

UsableDatavalues ==
    { Datavalue("string", <<109>>),                       \* "m"
      Datavalue("wikibase-entityid", Q1),
      Datavalue("quantity", <<43, 55>>) }                 \* "+7"

SkipRanks == {"preferred", "normal"}

SkipClaims ==
    { Claim(r, dv) : r \in SkipRanks,
                     dv \in AbsentDatavalues \cup UsableDatavalues }

SkipClaimLists == UNION { [1..k -> SkipClaims] : k \in 0..MaxClaims }

\* resolvers in which Q4 is not registered
SkipResolvers == { m \in Resolvers : Q4 \notin DOMAIN m }

InitSkip ==
    /\ pc = "reduce"
    /\ claims \in SkipClaimLists
    /\ id_name_map \in SkipResolvers
    /\ reduced = Absent
    /\ value = NoDatavalue /\ mapped = None
    /\ StreamIdle

SpecSkip == InitSkip /\ [][NextReduce]_vars

-----------------------------------------------------------------------------
(* Specification SpecValue: one raw datavalue is interpreted by map_value. *)

Signs == { <<>>, <<43>>, <<45>> }                       \* "", "+", "-"

Years == { <<49, 57, 57, 57>>, <<55, 48>> }             \* "1999", "70"

TwoDigits == { <<48, 48>>, <<48, 55>>, <<49, 50>> }     \* "00", "07", "12"

Clocks ==
    { <<84, 48, 48, 58, 48, 48, 58, 48, 48, 90>>,       \* "T00:00:00Z"
      <<84, 49, 50, 58, 48, 55, 58, 48, 48, 90>>,       \* "T12:07:00Z"
      <<84, 48, 48, 58, 48, 48>> }                      \* "T00:00"

TimeTexts ==
    { sg \o y \o <<45>> \o mo \o <<45>> \o d \o clk :
        sg \in Signs, y \in Years, mo \in TwoDigits, d \in TwoDigits,
        clk \in Clocks }

\* value of type globecoordinate: latitude, longitude and altitude are
\* missing (or null) or a number, globe is missing or a str
Globecoordinate(latitude, longitude, globe, altitude) ==
    [Datavalue("globecoordinate", globe) EXCEPT
        !.latitude = latitude, !.longitude = longitude,
        !.altitude = altitude]

Q2 == <<81, 50>>        \* "Q2", the Earth

Latitudes == { <<>>, <<0>>, <<5>>, <<-5>> }

Longitudes == { <<>>, <<0>>, <<7>> }

Altitudes == { <<>>, <<0>>, <<3>> }

Globes ==
    { <<>>,                     \* no globe
      <<101, 47>> \o Q2,        \* "e/Q2"
      <<101, 47>> \o Q1,        \* "e/Q1"
      <<101, 47>> \o Q4,        \* "e/Q4"
      Q1 }                      \* "Q1"

Coordinates ==
    { Globecoordinate(lat, lng, globe, alt) :
        lat \in Latitudes, lng \in Longitudes, globe \in Globes,
        alt \in Altitudes }

RawValues == { Datavalue("time", text) : text \in TimeTexts } \cup Coordinates

\* the resolvers of a run, and one in which the Earth is registered
ValueResolvers == Resolvers \cup { (Q2 :> LabelA) @@ (Q1 :> LabelB) }

InitValue ==
    /\ pc = "map"
    /\ value \in RawValues
    /\ id_name_map \in ValueResolvers
    /\ mapped = None
    /\ claims = <<>> /\ reduced = Absent
    /\ StreamIdle

MapValue ==
    /\ pc = "map"
    /\ mapped' = map_value(value, id_name_map)
    /\ pc' = "mapped"
    /\ UNCHANGED <<claims, id_name_map, value, reduced>>
    /\ UNCHANGED streamVars

NextValue == MapValue

SpecValue == InitValue /\ [][NextValue]_vars

-----------------------------------------------------------------------------
(* Entity projection: one pass of the loop `for d in chunk` of             *)
(* process_chunk.  An entity d has the members the loop reads:             *)
(*   wikipedia_id  d.get('sitelinks', {}).get('enwiki', {}).get('title')   *)
(*   title         d['labels'].get('en', {}).get('value')                  *)
(*   description   d['descriptions'].get('en', {}).get('value')            *)
(*   id            d['id']                                                 *)
(*   claims        d['claims'].items(), pairs [prop_id, claims] in order   *)
(* wikipedia_id, title and description are None or a str.  The members     *)
(* labels, descriptions, id and claims are present in every entity.        *)

Property(prop_id, cl) == [prop_id |-> prop_id, claims |-> cl]

\* line 84 testing the display title only
HasTitleAndLabel_title_only(d) == Truthy(d.wikipedia_id)

\* line 84: `if wikipedia_id and title`
HasTitleAndLabel(d) == Truthy(d.wikipedia_id) /\ Truthy(d.title)

\* line 85 with the test left out
IsDuplicate_never(d, names) == FALSE

\* line 85: `if wikipedia_id in id_name_map`
IsDuplicate(d, names) == d.wikipedia_id.s \in DOMAIN names

\* line 88 binding the title in a fresh dict
Register_fresh(names, d) == (d.wikipedia_id.s :> d.title.s)

\* line 88: `id_name_map[wikipedia_id] = title`
Register(names, d) == (d.wikipedia_id.s :> d.title.s) @@ names

\* lines 90-112 over the first k properties of the entity: the properties
\* dict, or raised = TRUE when sorted() raised for one of them
NoProperties == [raised |-> FALSE, dict |-> EmptyMap]

\* lines 90-112 without the test `if prop_name` of line 92: a property
\* whose identifier has no label is bound under the key None
RECURSIVE properties_unnamed(_, _, _)
properties_unnamed(props, k, names) ==
    IF k = 0 THEN NoProperties
    ELSE LET before == properties_unnamed(props, k - 1, names)
             prop_name == Get(names, props[k].prop_id)
             val == property_value(props[k].claims, names)
         IN  IF before.raised \/ val = Absent
             THEN before
             ELSE IF val = TypeError
             THEN [before EXCEPT !.raised = TRUE]
             ELSE [before EXCEPT !.dict = (prop_name.s :> val) @@ before.dict]

RECURSIVE properties(_, _, _)
properties(props, k, names) ==
    IF k = 0 THEN NoProperties
    ELSE LET before == properties(props, k - 1, names)
             prop_name == Get(names, props[k].prop_id)
             val == property_value(props[k].claims, names)
         IN  IF before.raised \/ ~Truthy(prop_name) \/ val = Absent
             THEN before
             ELSE IF val = TypeError
             THEN [before EXCEPT !.raised = TRUE]
             ELSE [before EXCEPT !.dict = (prop_name.s :> val) @@ before.dict]

\* the identifiers for which id_name_map.get returned a label (lines 91, 40)
\* while the first k properties were projected
RECURSIVE lookups(_, _, _)
lookups(props, k, names) ==
    IF k = 0 THEN {}
    ELSE IF properties(props, k - 1, names).raised
    THEN lookups(props, k - 1, names)
    ELSE lookups(props, k - 1, names)
         \cup (IF Truthy(Get(names, props[k].prop_id))
               THEN {props[k].prop_id}
                    \cup { props[k].claims[i].datavalue.text :
                             i \in { j \in 1..Len(props[k].claims) :
                                 /\ IsReference(props[k].claims[j])
                                 /\ map_value(props[k].claims[j].datavalue,
                                              names) # None } }
               ELSE {})

\* the parameters of the INSERT of lines 114-117
Row(d, dict) ==
    [wikipedia_id |-> d.wikipedia_id.s, title |-> d.title.s,
     wikidata_id |-> d.id, description |-> d.description,
     properties |-> dict]

-----------------------------------------------------------------------------
(* Specification Spec: main reads the dump line by line, buffers the       *)
(* decoded entries in chunk and hands every full chunk, and the last       *)
(* partial one, to process_chunk.  A line of the dump is one of            *)
(*   "entry"        json.loads(line) returns an entity (lines 133-134)     *)
(*   "undecodable"  json.loads(line) raises JSONDecodeError (line 135)     *)
(*   "invalid"      the reader json_file.iter() cannot decode the line     *)
(*                  and raises InvalidLineError (caught at line 146)       *)

NoEntity ==
    [wikipedia_id |-> None, title |-> None, description |-> None,
     id |-> <<>>, claims |-> <<>>]

Entity(wikipedia_id, title, props) ==
    [wikipedia_id |-> wikipedia_id, title |-> title, description |-> None,
     id |-> <<81, 55>>, claims |-> props]

Reference(rank, id) == Claim(rank, Datavalue("wikibase-entityid", id))

\* one property, Q1, whose claims are cl
OnlyQ1(cl) == <<Property(Q1, cl)>>

\* the entities of the model: two display titles, two labels; property Q1
\* with a reference to the entity itself, to an entity registered earlier,
\* or to one not registered yet
Entities ==
    { Entity(None, Str(LabelA), <<>>),
      Entity(Str(Q1), None, <<>>),
      Entity(Str(Q1), Str(LabelA), <<>>),
      Entity(Str(Q1), Str(LabelB), OnlyQ1(<<Reference("normal", Q1)>>)),
      Entity(Str(Q1), Str(LabelA), OnlyQ1(<<Reference("normal", Q3)>>)),
      Entity(Str(Q3), Str(LabelA), <<>>),
      Entity(Str(Q3), Str(LabelB), OnlyQ1(<<Reference("normal", Q1)>>)),
      Entity(Str(Q3), Str(LabelB), OnlyQ1(<<Reference("normal", Q3)>>)),
      \* sorted() raises for this one once Q1 is registered
      Entity(Str(Q3), Str(LabelB),
             OnlyQ1(<<Claim("normal", Datavalue("quantity", <<43, 55>>)),
                      Reference("normal", Q1)>>)) }

Lines ==
    { [kind |-> "entry", entity |-> d] : d \in Entities }
    \cup { [kind |-> "undecodable", entity |-> NoEntity],
           [kind |-> "invalid", entity |-> NoEntity] }

Streams == UNION { [1..k -> Lines] : k \in 0..MaxLines }

Init ==
    /\ pc = "read"
    /\ stream \in Streams
    /\ chunk_size \in 1..MaxChunkSize
    /\ line_number = 0
    /\ chunk = <<>> /\ todo = <<>> /\ c = 0 /\ skip = 0
    /\ id_name_map = EmptyMap
    /\ table = <<>> /\ printed = <<>>
    /\ cur = 0 /\ resolved = {}
    /\ claims = <<>> /\ reduced = Absent
    /\ value = NoDatavalue /\ mapped = None

idleVars == <<claims, reduced, value, mapped>>

\* lines 138-140: the test that hands the chunk to process_chunk, after
\* the line was appended to the chunk or reported
AfterLine(new_chunk) ==
    /\ chunk' = new_chunk
    /\ IF Len(new_chunk) >= chunk_size
       THEN pc' = "chunk" /\ todo' = new_chunk /\ c' = 0 /\ skip' = 0
       ELSE pc' = "read" /\ UNCHANGED <<todo, c, skip>>

\* lines 131-134 and 138-140: a line that decodes is appended to the chunk
ReadEntry ==
    /\ pc = "read"
    /\ line_number < Len(stream)
    /\ stream[line_number + 1].kind = "entry"
    /\ line_number' = line_number + 1
    /\ AfterLine(Append(chunk, [line |-> line_number + 1,
                                entity |-> stream[line_number + 1].entity]))
    /\ UNCHANGED <<stream, chunk_size, id_name_map, table, printed, cur,
                   resolved>>
    /\ UNCHANGED idleVars

\* lines 135-140: JSONDecodeError is reported and the loop goes on
ReadUndecodable ==
    /\ pc = "read"
    /\ line_number < Len(stream)
    /\ stream[line_number + 1].kind = "undecodable"
    /\ line_number' = line_number + 1
    /\ AfterLine(chunk)
    /\ UNCHANGED <<stream, chunk_size, id_name_map, table, printed, cur,
                   resolved>>
    /\ UNCHANGED idleVars

\* lines 146-147: InvalidLineError leaves the loop and the `with` block;
\* main reports it and returns, and the buffered chunk is not processed
ReadInvalid ==
    /\ pc = "read"
    /\ line_number < Len(stream)
    /\ stream[line_number + 1].kind = "invalid"
    /\ line_number' = line_number + 1
    /\ pc' = "done"
    /\ UNCHANGED <<stream, chunk_size, chunk, todo, c, skip, id_name_map,
                   table, printed, cur, resolved>>
    /\ UNCHANGED idleVars

\* lines 142-144: at the end of the file the remaining chunk is processed
EndOfFile ==
    /\ pc = "read"
    /\ line_number = Len(stream)
    /\ IF chunk # <<>>
       THEN pc' = "last_chunk" /\ todo' = chunk /\ c' = 0 /\ skip' = 0
       ELSE pc' = "done" /\ UNCHANGED <<todo, c, skip>>
    /\ UNCHANGED <<stream, chunk_size, line_number, chunk, id_name_map,
                   table, printed, cur, resolved>>
    /\ UNCHANGED idleVars

InBatch == pc \in {"chunk", "last_chunk"}

\* lines 72-73: the next entry of the batch is taken (the progress print
\* of lines 74-75 changes nothing and is left out of printed)
Visit ==
    /\ InBatch
    /\ todo # <<>>
    /\ todo' = Tail(todo)
    /\ c' = c + 1
    /\ cur' = Head(todo).line
    /\ UNCHANGED <<stream, chunk_size, line_number, chunk, printed>>
    /\ UNCHANGED idleVars

\* line 84 fails: the entity has no display title or no label
VisitIgnored ==
    /\ Visit
    /\ ~HasTitleAndLabel(Head(todo).entity)
    /\ resolved' = {}
    /\ UNCHANGED <<pc, skip, id_name_map, table>>

\* lines 85-87: the display title is already registered
VisitDuplicate ==
    /\ Visit
    /\ HasTitleAndLabel(Head(todo).entity)
    /\ IsDuplicate(Head(todo).entity, id_name_map)
    /\ skip' = skip + 1
    /\ resolved' = {}
    /\ UNCHANGED <<pc, id_name_map, table>>

\* lines 88-112: the title is registered and the claims are projected
Projects(d) ==
    /\ HasTitleAndLabel(d)
    /\ ~IsDuplicate(d, id_name_map)
    /\ id_name_map' = Register(id_name_map, d)
    /\ resolved' = lookups(d.claims, Len(d.claims), id_name_map')
    /\ UNCHANGED skip

\* lines 88-117: the row is inserted
VisitInsert ==
    /\ Visit
    /\ Projects(Head(todo).entity)
    /\ LET d == Head(todo).entity
           props == properties(d.claims, Len(d.claims), id_name_map')
       IN  /\ ~props.raised
           /\ table' = Append(table, Row(d, props.dict))
    /\ UNCHANGED pc

\* lines 88-117 with the error of cursor.execute caught and the loop going on
VisitInsertFails_absorbed ==
    /\ Visit
    /\ Projects(Head(todo).entity)
    /\ LET d == Head(todo).entity
       IN  ~properties(d.claims, Len(d.claims), id_name_map').raised
    /\ UNCHANGED <<pc, table>>

\* lines 88-117: cursor.execute raises; nothing catches it and the run ends
VisitInsertFails ==
    /\ Visit
    /\ Projects(Head(todo).entity)
    /\ LET d == Head(todo).entity
       IN  ~properties(d.claims, Len(d.claims), id_name_map').raised
    /\ pc' = "insert_failed"
    /\ UNCHANGED table

\* lines 88-110: sorted() raises TypeError; nothing catches it and the run
\* ends
VisitRaises ==
    /\ Visit
    /\ Projects(Head(todo).entity)
    /\ LET d == Head(todo).entity
       IN  properties(d.claims, Len(d.claims), id_name_map').raised
    /\ pc' = "raised"
    /\ UNCHANGED table

\* line 121, then line 140 (`chunk = []`) or the end of main
EndChunk ==
    /\ InBatch
    /\ todo = <<>>
    /\ printed' = Append(printed, <<c, skip>>)
    /\ IF pc = "chunk"
       THEN pc' = "read" /\ chunk' = <<>>
       ELSE pc' = "done" /\ UNCHANGED chunk
    /\ UNCHANGED <<stream, chunk_size, line_number, todo, c, skip,
                   id_name_map, table, cur, resolved>>
    /\ UNCHANGED idleVars

Next ==
    \/ ReadEntry
    \/ ReadUndecodable
    \/ ReadInvalid
    \/ EndOfFile
    \/ VisitIgnored
    \/ VisitDuplicate
    \/ VisitInsert
    \/ VisitInsertFails
    \/ VisitRaises
    \/ EndChunk

Spec == Init /\ [][Next]_vars

-----------------------------------------------------------------------------
(* Properties of the claim reduction, checked under SpecReduce.            *)

\* the claims of rank r, in input order
OfRank(cl, r) == SelectSeq(cl, LAMBDA x : x.rank = r)

\* some claim of rank r carries a value that map_value interprets (not None)
HasValue(cl, r, names) ==
    \E i \in 1..Len(cl) :
        /\ cl[i].rank = r
        /\ cl[i].has_mainsnak
        /\ map_value(cl[i].datavalue, names) # None

\* C1: rank priority.  When the claims of a property hold a deprecated-rank
\* value and a preferred-rank value, the value reduced from all the claims
\* is a value (not absent, no error) made only of values of preferred-rank
\* claims, whatever the order of the claims.
C1_RankPriority ==
    (/\ pc = "reduced"
     /\ HasValue(claims, "preferred", id_name_map)
     /\ HasValue(claims, "deprecated", id_name_map))
    => /\ reduced.tag \in {"scalar", "list"}
       /\ \A i \in 1..Len(reduced.vals) :
            \E j \in 1..Len(claims) :
                /\ claims[j].rank = "preferred"
                /\ reduced.vals[i] = map_value(claims[j].datavalue, id_name_map)

\* the labels the resolver gives the referenced identifiers, in claim order
Labels(cl, names) == [i \in 1..Len(cl) |-> Str(names[cl[i].datavalue.text])]

\* how often x occurs in lst
Count(lst, x) == Cardinality({i \in 1..Len(lst) : lst[i] = x})

\* lst is in non-decreasing lexicographic order
IsSorted(lst) ==
    \A i, j \in 1..Len(lst) : i < j => ~StrLess(lst[j].s, lst[i].s)

\* the preferred-rank claims are exactly three entity references, each to
\* an identifier the resolver already holds
ThreePreferredReferences ==
    LET pref == OfRank(claims, "preferred")
    IN  /\ Len(pref) = 3
        /\ \A i \in 1..3 :
              /\ IsReference(pref[i])
              /\ pref[i].datavalue.text \in DOMAIN id_name_map

\* C2: reference accumulation.  Three preferred-rank entity references to
\* registered identifiers reduce to the list of their three labels
\* (duplicates kept) in sorted order, whatever the order of the claims.
C2_ReferenceAccumulation ==
    (pc = "reduced" /\ ThreePreferredReferences)
    => LET labels == Labels(OfRank(claims, "preferred"), id_name_map)
       IN  /\ reduced.tag = "list"
           /\ Len(reduced.vals) = 3
           /\ \A i \in 1..3 :
                 Count(reduced.vals, labels[i]) = Count(labels, labels[i])
           /\ IsSorted(reduced.vals)

\* C2 witness: three references whose labels arrive out of order have been
\* reduced
C2_Witness ==
    /\ pc = "reduced"
    /\ ThreePreferredReferences
    /\ ~IsSorted(Labels(OfRank(claims, "preferred"), id_name_map))
    /\ reduced.tag = "list"

\* C3: scalar overwrite.  Two normal-rank claims that are not entity
\* references reduce to the value of the later claim alone.
C3_ScalarOverwrite ==
    (/\ pc = "reduced"
     /\ Len(claims) = 2
     /\ \A i \in 1..2 : claims[i].rank = "normal" /\ ~IsReference(claims[i]))
    => reduced = Scalar(map_value(claims[2].datavalue, id_name_map))

-----------------------------------------------------------------------------
(* Properties of the typed-value interpreter, checked under SpecValue.     *)

\* "+" year "-00-00" clock "Z": a signed date-time with month and day zero
IsSignedZeroDate(text) ==
    \E y \in Years, clk \in Clocks :
        /\ Len(clk) = 10
        /\ text = <<43>> \o y \o <<45, 48, 48, 45, 48, 48>> \o clk

\* C10: date normalisation.  A raw date-time such as "+1999-00-00T00:00:00Z"
\* is interpreted to a timestamp (not to None) whose month and day are 01.
C10_DateNormalization ==
    (pc = "mapped" /\ value.type = "time" /\ IsSignedZeroDate(value.text))
    => /\ mapped.kind = "str"
       /\ Len(mapped.s) = 19
       /\ SubSeq(mapped.s, 5, 10) = <<45, 48, 49, 45, 48, 49>>

-----------------------------------------------------------------------------
(* Properties of the run, checked under Spec.                              *)

\* this step visits the next entry of the batch
Visiting == InBatch /\ todo # <<>> /\ c' = c + 1

\* line i of the dump is an entity with the display title w
HasTitle(i, w) ==
    /\ stream[i].kind = "entry"
    /\ stream[i].entity.wikipedia_id = Str(w)
    /\ w # <<>>

\* line i of the dump is an entity with the display title w and a label
HasTitleLabel(i, w) == HasTitle(i, w) /\ Truthy(stream[i].entity.title)

\* no two rows of the table have the same display title
DistinctTitles(rows) ==
    \A i, j \in 1..Len(rows) :
        i # j => rows[i].wikipedia_id # rows[j].wikipedia_id

\* the visit of an entry leaves the row of `first` as the only row of its
\* title, counts the entry as skipped, inserts nothing and leaves the
\* resolver as it is
SkippedAfter(first) ==
    /\ skip' = skip + 1
    /\ table' = table
    /\ id_name_map' = id_name_map
    /\ \E k \in 1..Len(table) :
          /\ table[k].wikipedia_id = stream[first].entity.wikipedia_id.s
          /\ table[k].title = stream[first].entity.title.s

\* the first line of the dump that is an entity with the display title w
FirstWithTitle(w) ==
    CHOOSE i \in 1..Len(stream) :
        HasTitle(i, w) /\ \A j \in 1..(i - 1) : ~HasTitle(j, w)

\* the first line of the dump that is an entity with the display title w
\* and a label
FirstWithTitleLabel(w) ==
    CHOOSE i \in 1..Len(stream) :
        HasTitleLabel(i, w) /\ \A j \in 1..(i - 1) : ~HasTitleLabel(j, w)

\* C4 as stated: no two rows share a display title, and of two entities
\* with the same display title the first in file order is the one in the
\* table, while the visit of the second counts it as skipped, inserts
\* nothing and leaves the resolver and the first one's row alone.
C4_Deduplication ==
    [][Visiting =>
        LET e == Head(todo)
            w == e.entity.wikipedia_id.s
        IN  /\ DistinctTitles(table')
            /\ (\E i \in 1..(e.line - 1) : HasTitle(i, w))
                  => SkippedAfter(FirstWithTitle(w))]_vars

\* C4 amended: the same, for two entities that both have a display title
\* and a label.
C4_DeduplicationLabelled ==
    [][Visiting =>
        LET e == Head(todo)
            w == e.entity.wikipedia_id.s
        IN  /\ DistinctTitles(table')
            /\ (/\ Truthy(e.entity.title)
                /\ \E i \in 1..(e.line - 1) : HasTitleLabel(i, w))
                  => SkippedAfter(FirstWithTitleLabel(w))]_vars

\* C4 witness: an entity whose display title was registered with another
\* label has been visited and counted as skipped
C4_Witness ==
    /\ InBatch
    /\ skip > 0
    /\ stream[cur].entity.wikipedia_id.s \in DOMAIN id_name_map
    /\ Truthy(stream[cur].entity.title)
    /\ id_name_map[stream[cur].entity.wikipedia_id.s]
          # stream[cur].entity.title.s

\* the claims of the property are entity references, none of them to an
\* identifier in known
OnlyReferencesOutside(prop, known) ==
    /\ prop.claims # <<>>
    /\ \A i \in 1..Len(prop.claims) :
          /\ IsReference(prop.claims[i])
          /\ prop.claims[i].datavalue.text \notin known

\* the visit of entity d raises nothing for its property prop and, unless
\* the insert fails, adds the row of d with no key for prop
EmittedWithout(d, prop) ==
    /\ pc' # "raised"
    /\ pc' # "insert_failed" =>
          /\ Len(table') = Len(table) + 1
          /\ table'[Len(table')].wikipedia_id = d.wikipedia_id.s
          /\ prop.prop_id \in DOMAIN id_name_map' =>
                id_name_map'[prop.prop_id]
                    \notin DOMAIN table'[Len(table')].properties

C6_StrictlyEarlier ==
    \A x \in resolved : \E i \in 1..(cur - 1) : HasTitleLabel(i, x)

\* C6 amended: every identifier that resolved while the entry of line cur
\* was projected is the display title of an entity with a label on a line
\* before cur or on line cur itself; never only of an entity on a later
\* line.
C6_EarlierOrSelf ==
    \A x \in resolved : \E i \in 1..cur : HasTitleLabel(i, x)

\* C6 witness: an entity has resolved its own display title
C6_Witness ==
    /\ cur > 0
    /\ stream[cur].entity.wikipedia_id.s \in resolved
    /\ \A i \in 1..(cur - 1) :
          ~HasTitleLabel(i, stream[cur].entity.wikipedia_id.s)

\* C7: in every step the resolver keeps every key it has, with the label
\* it has.
C7_ResolverMonotonic ==
    [][\A k \in DOMAIN id_name_map :
          /\ k \in DOMAIN id_name_map'
          /\ id_name_map'[k] = id_name_map[k]]_vars

\* C7 witness: in a later batch, with two keys registered, an entity whose
\* display title is registered with another label has been visited
C7_Witness ==
    /\ InBatch
    /\ printed # <<>>
    /\ Cardinality(DOMAIN id_name_map) = 2
    /\ skip > 0
    /\ id_name_map[stream[cur].entity.wikipedia_id.s]
          # stream[cur].entity.title.s

\* the dump has exactly one line that does not decode, and it stands
\* between two entities
OneBadLineBetweenEntities ==
    /\ Cardinality({i \in 1..Len(stream) : stream[i].kind # "entry"}) = 1
    /\ \E i \in 2..(Len(stream) - 1) :
          /\ stream[i].kind # "entry"
          /\ stream[i - 1].kind = "entry"
          /\ stream[i + 1].kind = "entry"

\* C8: malformed-line resilience.  When main has returned after a dump with
\* one line that does not decode between entities, every line was read and
\* every entity, before and after that line, was visited and (having a
\* display title and a label) has a row of its title.
C8_MalformedLineResilience ==
    (pc = "done" /\ OneBadLineBetweenEntities)
    => /\ line_number = Len(stream)
       /\ \A i \in 1..Len(stream) :
             stream[i].kind = "entry" =>
                /\ i <= cur
                /\ HasTitleAndLabel(stream[i].entity) =>
                      \E k \in 1..Len(table) :
                          table[k].wikipedia_id
                              = stream[i].entity.wikipedia_id.s

\* process_chunk over the first k entities of one chunk, every insert
\* succeeding: the resolver and the rows after it
RECURSIVE process_chunk(_, _)
process_chunk(entities, k) ==
    IF k = 0 THEN [names |-> EmptyMap, rows |-> <<>>, raised |-> FALSE]
    ELSE LET before == process_chunk(entities, k - 1)
             d == entities[k]
             names == Register(before.names, d)
             props == properties(d.claims, Len(d.claims), names)
         IN  IF \/ before.raised
                \/ ~HasTitleAndLabel(d)
                \/ IsDuplicate(d, before.names)
             THEN before
             ELSE IF props.raised
             THEN [before EXCEPT !.names = names, !.raised = TRUE]
             ELSE [before EXCEPT !.names = names,
                                 !.rows = Append(before.rows,
                                                 Row(d, props.dict))]

\* main with a chunk_size larger than the dump: the whole dump is one batch
WholeDump ==
    LET entries == SelectSeq(stream, LAMBDA l : l.kind = "entry")
        entities == [i \in 1..Len(entries) |-> entries[i].entity]
    IN  IF \E i \in 1..Len(stream) : stream[i].kind = "invalid"
        THEN process_chunk(<<>>, 0)
        ELSE process_chunk(entities, Len(entities))

\* C9: batching has no semantic effect.  When main has returned, the rows
\* inserted and the resolver are those of the run that processes the whole
\* dump as one batch, for every dump and every chunk_size.
C9_BatchingNoEffect ==
    pc = "done" =>
        /\ table = WholeDump.rows
        /\ id_name_map = WholeDump.names

\* C11: round trip of a string.  When the only claim of a property is a
\* preferred-rank claim of type string, the value reduced for the property
\* is exactly that string, not wrapped in a list, for any string.
C11_StringRoundTrip ==
    (/\ pc = "reduced"
     /\ Len(claims) = 1
     /\ claims[1].rank = "preferred"
     /\ claims[1].datavalue.type = "string")
    => reduced = Scalar(Str(claims[1].datavalue.text))

-----------------------------------------------------------------------------
(* Properties of the run, checked under Spec (continued).                  *)

\* the entity has no display title or no label
Missing(d) == d.wikipedia_id.kind = "none" \/ d.title.kind = "none"

\* C12: an entity without a display title or without a label is skipped
\* without error.  The visit of such an entity inserts no row, leaves the
\* resolver as it was, and leaves the run in the batch with the rest of the
\* batch still to visit.
C12_MissingSkipped ==
    [][(Visiting /\ Missing(Head(todo).entity))
       => /\ table' = table
          /\ id_name_map' = id_name_map
          /\ pc' = pc
          /\ todo' = Tail(todo)]_vars

\* an entity without title or label was visited, and the entity after it
\* in the same batch was inserted
C12_Witness ==
    /\ InBatch
    /\ table # <<>>
    /\ \E i \in 1..(cur - 1) :
          /\ stream[i].kind = "entry"
          /\ Missing(stream[i].entity)
          /\ stream[cur].kind = "entry"
          /\ table[Len(table)].wikipedia_id = stream[cur].entity.wikipedia_id.s
          /\ chunk[1].line <= i

\* C13: a failure of the INSERT is not absorbed.  A visit that registers
\* the entity but inserts no row, sorted() not having raised, leaves the run
\* aborted, and an aborted run takes no further step: no line is read, no
\* entity visited, registered or inserted after the failing one.
C13_SinkFailureAborts ==
    [][/\ pc # "insert_failed"
       /\ (/\ Visiting
           /\ DOMAIN id_name_map' # DOMAIN id_name_map
           /\ table' = table
           /\ pc' # "raised")
          => pc' = "insert_failed"]_vars

\* the INSERT failed while an entity of the batch and a line of the dump
\* were still waiting
C13_Witness ==
    /\ pc = "insert_failed"
    /\ todo # <<>>
    /\ line_number < Len(stream)

\* the run has ended: main returned or an exception left it
Ended == pc \in {"done", "insert_failed", "raised"}

\* C14: a run ends in one of two ways only.  When the run has ended, either
\* the INSERT failed, or main returned after every line of the dump was
\* read and every entity that decoded was visited.
C14_TwoWaysToEnd ==
    Ended =>
        \/ pc = "insert_failed"
        \/ /\ pc = "done"
           /\ line_number = Len(stream)
           /\ \A i \in 1..Len(stream) : stream[i].kind = "entry" => i <= cur

-----------------------------------------------------------------------------
(* Properties of the claim reduction, checked under SpecReduce             *)
(* (continued).                                                            *)

\* the labels the resolver gives the reference claims of rank r
ReferenceLabels(cl, r, names) ==
    { map_value(cl[i].datavalue, names) :
        i \in { j \in 1..Len(cl) : cl[j].rank = r /\ IsReference(cl[j]) } }
    \ {None}

\* C15: only reference labels accumulate.  After each claim of the loop, a
\* bucket that holds more than one value holds only labels of reference
\* claims of its rank, and a list chosen for the property is made of
\* labels of reference claims only.
C15_OnlyReferencesAccumulate ==
    pc = "reduced" =>
        /\ \A k \in 0..Len(claims) : \A r \in Ranks :
              LET lst == ranks(claims, k, id_name_map)[r]
              IN  Len(lst) > 1 =>
                     \A i \in 1..Len(lst) :
                         lst[i] \in ReferenceLabels(claims, r, id_name_map)
        /\ reduced.tag = "list" =>
              \A i \in 1..Len(reduced.vals) : \E r \in Ranks :
                  reduced.vals[i] \in ReferenceLabels(claims, r, id_name_map)

-----------------------------------------------------------------------------
(* Property of the claim reduction, checked under SpecSkip.                *)

\* map_value returns None for the value of the claim
InterpretsToAbsent(claim, names) == map_value(claim.datavalue, names) = None

\* C16: a claim whose value interprets to absent has no effect.  The
\* buckets after such a claim are the buckets before it, and the value
\* reduced from all the claims is the value reduced from the claims that
\* are left when those claims are taken out.
C16_AbsentClaimNoEffect ==
    pc = "reduced" =>
        /\ \A k \in 1..Len(claims) :
              InterpretsToAbsent(claims[k], id_name_map) =>
                 ranks(claims, k, id_name_map)
                     = ranks(claims, k - 1, id_name_map)
        /\ reduced
             = property_value(
                   SelectSeq(claims,
                             LAMBDA x : ~InterpretsToAbsent(x, id_name_map)),
                   id_name_map)

\* a claim that is not a reference and interprets to absent came after a
\* claim of the same rank with a value, and that value was chosen
C16_Witness ==
    /\ pc = "reduced"
    /\ \E i, j \in 1..Len(claims) :
          /\ i < j
          /\ claims[i].rank = claims[j].rank
          /\ Truthy(map_value(claims[i].datavalue, id_name_map))
          /\ InterpretsToAbsent(claims[j], id_name_map)
          /\ ~IsReference(claims[j])
          /\ reduced = Scalar(map_value(claims[i].datavalue, id_name_map))

-----------------------------------------------------------------------------
(* Properties of the run, checked under Spec (continued).                  *)

\* C17: the keys of a row's property map.  When a visit inserts a row,
\* every key of its property map is the label the resolver, as it is at
\* that visit, gives some property identifier of the entity, and the key is
\* bound to a scalar or a list of values none of which is None; a property
\* whose identifier is not a resolver key adds no key.
C17_KeysAreResolvedLabels ==
    [][(Visiting /\ Len(table') = Len(table) + 1)
       => LET d == Head(todo).entity
              dict == table'[Len(table')].properties
          IN  \A key \in DOMAIN dict :
                  /\ \E k \in 1..Len(d.claims) :
                        /\ d.claims[k].prop_id \in DOMAIN id_name_map'
                        /\ id_name_map'[d.claims[k].prop_id] = key
                  /\ dict[key].tag \in {"scalar", "list"}
                  /\ dict[key].vals # <<>>
                  /\ \A i \in 1..Len(dict[key].vals) :
                        dict[key].vals[i] # None]_vars

\* the first row is that of an entity whose property identifier was not a
\* resolver key while the identifier its claim refers to was, and has no
\* key; the second row has a key
C17_Witness ==
    /\ Len(table) = 2
    /\ table[1].properties = EmptyMap
    /\ LET d == stream[FirstWithTitleLabel(table[1].wikipedia_id)].entity
       IN  /\ Len(d.claims) = 1
           /\ d.claims[1].prop_id # table[1].wikipedia_id
           /\ d.claims[1].claims[1].datavalue.text = table[1].wikipedia_id
    /\ table[2].properties # EmptyMap

\* the rows and the resolver agree: the keys of the resolver are the
\* display titles of the rows, and each key is bound to the label of the
\* one row of that title
RowsMatchResolver ==
    /\ DOMAIN id_name_map = { table[k].wikipedia_id : k \in 1..Len(table) }
    /\ DistinctTitles(table)
    /\ \A k \in 1..Len(table) :
          id_name_map[table[k].wikipedia_id] = table[k].title

\* C18: registrations and rows match.  In every state of a run in which no
\* INSERT has failed, the rows and the resolver agree.
C18_RegisteredIffEmitted ==
    pc # "insert_failed" => RowsMatchResolver

-----------------------------------------------------------------------------
(* Property of map_value, checked under SpecValue (continued).             *)

\* a number that is there and is not zero
Given(x) == x # <<>> /\ x # <<0>>

\* what follows the last '/' of text: the suffix without '/' that is all
\* of text or stands right after a '/'
GlobeId(text) ==
    CHOOSE g \in { SubSeq(text, i, Len(text)) : i \in 1..(Len(text) + 1) } :
        /\ \A i \in 1..Len(g) : g[i] # 47
        /\ Len(g) = Len(text) \/ text[Len(text) - Len(g)] = 47

\* C19: interpretation of a geographic coordinate.  The result is None
\* when neither latitude nor longitude is given (truthy); otherwise it is
\* a dict with the lat and lng of the value, which has a globe only if
\* that is the globe identifier of the value, is not "Q2" and is a key of
\* the resolver, and has an altitude only if the value gives that altitude.
C19_Globecoordinate ==
    (pc = "mapped" /\ value.type = "globecoordinate")
    => IF ~Given(value.latitude) /\ ~Given(value.longitude)
       THEN mapped = None
       ELSE /\ mapped.kind = "dict"
            /\ mapped.lat = value.latitude
            /\ mapped.lng = value.longitude
            /\ mapped.globe # <<>> =>
                  /\ mapped.globe = <<GlobeId(value.text)>>
                  /\ GlobeId(value.text) # Q2
                  /\ GlobeId(value.text) \in DOMAIN id_name_map
            /\ mapped.altitude # <<>> =>
                  /\ value.altitude # <<>>
                  /\ mapped.altitude = value.altitude

\* a coordinate with a longitude only, a registered globe and an altitude
\* was interpreted, and the result has the globe and the altitude
C19_Witness ==
    /\ pc = "mapped"
    /\ value.type = "globecoordinate"
    /\ value.latitude = <<>>
    /\ mapped.kind = "dict"
    /\ mapped.globe # <<>>
    /\ mapped.altitude # <<>>

-----------------------------------------------------------------------------
(* Property of the printed counts, checked under Spec.                     *)

\* the entities visited since the start of the run: the entries among the
\* lines up to the one visited last
Handled == { i \in 1..cur : stream[i].kind = "entry" }

\* the visited entities that were skipped as duplicates: an entity with
\* the same display title and a label stands before them
SkippedSoFar ==
    { i \in Handled :
        /\ HasTitleAndLabel(stream[i].entity)
        /\ \E j \in 1..(i - 1) :
              HasTitleLabel(j, stream[i].entity.wikipedia_id.s) }

\* C20: the printed counts are cumulative.  The pair printed at the end of
\* a batch is the number of entities visited and the number of entities
\* skipped since the start of the run.
C20_CumulativeCounts ==
    [][printed' # printed
       => printed' = Append(printed, <<Cardinality(Handled),
                                       Cardinality(SkippedSoFar)>>)]_vars

=============================================================================
